---- MODULE Spec2Model ----
(***************************************************************************)
(* The lesson status tracker of the lesson detail view (LessonPage):       *)
(* loadLesson, startPolling and its interval callback, handleRetry and the *)
(* effect cleanup, together with the lesson fetch service they talk to.    *)
(*                                                                         *)
(* The view runs on one event loop.  Every action below is one run of      *)
(* JavaScript up to the next await on a network response: a handler up to  *)
(* its first await, or the continuation of an await.  Responses arrive in   *)
(* any order.  A get request reads the backend when it is issued and its   *)
(* response arrives after an arbitrary delay, so responses can be stale.   *)
(* At most MaxInFlight requests await their response at a time.            *)
(* State setters (setLesson, setIsLoading, setIsRetrying) are modelled as   *)
(* the writes the code performs, also when the view is no longer mounted.  *)
(***************************************************************************)
EXTENDS Naturals, Integers, FiniteSets, Sequences, Bags, TLC

\* Bounds of the model.
MaxSwitches == 1
MaxRetries == 1
MaxInFlight == 2
MaxEdits == 2
MaxBadges == 2
MaxPending == 2
MaxHistory == 3
MaxStarts == 2
MaxTime == 2

\* The lessons the view can show (the lessonId route parameter).
LessonIds == {"A", "B"}

Statuses ==
    {"CREATED", "UPLOADED", "TRANSCRIBING", "EXTRACTING", "GENERATING",
     "COMPLETED", "FAILED"}

PROCESSING_STATUSES == {"UPLOADED", "TRANSCRIBING", "EXTRACTING", "GENERATING"}

TERMINAL_STATUSES == {"COMPLETED", "FAILED"}

\* The statuses lesson B may have when the view is opened on lesson A.
InitialStatusesB == {"GENERATING"}

\* pollRef.current = null
NoTimer == 0

\* mediaRecorderRef.current = null
NoRecorder == 0

\* lesson = null
NoLesson == [id |-> "none", status |-> "none", outputs |-> <<>>,
             transcript |-> "", error_message |-> ""]

\* The ids of the outputs the pipeline generates for a lesson.
OutputIds == {1, 2}

VARIABLES
    lessonId,    \* useParams().lessonId of the current render
    mounted,     \* the view is mounted
    epoch,       \* number of times the effect cleanup has run
    lesson,      \* useState: the held lesson, NoLesson for null
    isLoading,   \* useState
    isRetrying,  \* useState
    pollRef,     \* useRef: pollRef.current, NoTimer for null
    timers,      \* the interval timers that are live in the browser
    nextTimer,   \* the handle the next window.setInterval returns
    inflight,    \* bag of requests whose response has not arrived
    cont,        \* handleRetry waiting to resume after loadLesson returned
    location,    \* the route navigate() last asked for
    backend,     \* the status of each lesson at the service
    nRetries,    \* number of retry clicks so far
    event,       \* the tracker step that ran last
    stored,      \* the content of each output at the service
    nEdits,      \* number of save and revert clicks so far
    badges,      \* the status strings given to the StatusBadges on screen
    rendered,    \* what each StatusBadge has rendered
    token,       \* the token of the auth store, "null" when logged out
    href,        \* window.location.href
    pending,     \* the responses on their way to the response interceptor
    outcome,     \* the promise the request layer settled last
    history,     \* the browser's session history; its last entry is shown
    screen,      \* the element the routes rendered last
    user,        \* the user of the auth store, "null" when none is set
    form,        \* RegisterPage: the password and its confirmation
    reg,         \* RegisterPage: error, isLoading, and the auth state and
                 \* location at the last submission
    rec,         \* RecordPage: its useState values, and whether it is mounted
    refs,        \* RecordPage: mediaRecorderRef.current and timerRef.current
    media        \* the browser beside RecordPage: getUserMedia calls awaiting
                 \* permission, the MediaRecorders created, the live
                 \* intervals

view == <<lessonId, mounted, epoch, lesson, isLoading, isRetrying, location>>
poll == <<pollRef, timers, nextTimer>>
vars == <<lessonId, mounted, epoch, lesson, isLoading, isRetrying, pollRef,
          timers, nextTimer, inflight, cont, location, backend, nRetries,
          event, stored, nEdits, badges, rendered, token, href, pending,
          outcome, history, screen, user, form, reg, rec, refs, media>>
outputs == <<stored, nEdits>>
\* The state of LessonPage, and the state of the components beside it.
page == <<lessonId, mounted, epoch, lesson, isLoading, isRetrying, pollRef,
          timers, nextTimer, inflight, cont, location, backend, nRetries,
          event, stored, nEdits>>
auth == <<token, href, pending, outcome>>
router == <<history, screen>>
register == <<user, form, reg>>
recorder == <<rec, refs, media>>
aside == <<badges, rendered, auth, router, register, recorder>>

\* The outputs of a completed lesson as the service holds them when it
\* answers: snap gives each output's content, the generated one or the one
\* last saved.
GeneratedOutputs(snap) ==
    << [id |-> 1, output_type |-> "STUDENT_RECAP", content |-> snap[1],
        is_edited |-> snap[1] = "edited"],
       [id |-> 2, output_type |-> "PRACTICE_PLAN", content |-> snap[2],
        is_edited |-> snap[2] = "edited"] >>

\* The body of a successful getLesson response for a lesson in status st.
LessonDetail(lid, st, snap) ==
    [id |-> lid,
     status |-> st,
     outputs |-> IF st = "COMPLETED" THEN GeneratedOutputs(snap) ELSE <<>>,
     transcript |-> IF st = "COMPLETED" THEN "transcript" ELSE "",
     error_message |-> IF st = "FAILED" THEN "timeout" ELSE ""]

NoCont == [lid |-> "none", status |-> "none", gen |-> 0]

\* A request awaiting its response: what was asked (kind, lid), what the
\* service answers (status, and snap: the output contents it then holds),
\* and what the awaiting closure holds: the effect
\* generation it was issued in (gen), whether handleRetry awaits it
\* (viaRetry), the interval that issued it (tid), and for an output update
\* the output (oid) and the lesson handleOutputUpdate closed over (captured).
Request(kind, lid, st, viaRetry) ==
    [kind |-> kind, lid |-> lid, status |-> st, gen |-> epoch,
     viaRetry |-> viaRetry, tid |-> NoTimer, oid |-> 0, captured |-> NoLesson,
     snap |-> stored[lid]]

\* stale: the step belongs to a request issued before the last cleanup.
Event(op, lid, st, gen) ==
    [op |-> op, lid |-> lid, status |-> st, stale |-> gen < epoch]

Issue(b, r) == b (+) SetToBag({r})
Settle(b, r) == b (-) SetToBag({r})

\* Requests may be issued while fewer than MaxInFlight await their response.
MayIssue == BagCardinality(inflight) < MaxInFlight

\* window.clearInterval(id)
clearInterval(ts, id) == {t \in ts : t.id # id}

\* The poll state as one value, so that startPolling is a function of it.
PollState == [pollRef |-> pollRef, timers |-> timers, nextTimer |-> nextTimer]

SetPoll(p) ==
    /\ pollRef' = p.pollRef
    /\ timers' = p.timers
    /\ nextTimer' = p.nextTimer

\* startPolling without its first line: the prior interval is not cleared.
startPolling_noClear(p, lid) ==
    [pollRef |-> p.nextTimer,
     timers |-> p.timers \cup {[id |-> p.nextTimer, lid |-> lid]},
     nextTimer |-> p.nextTimer + 1]

\* startPolling of the render whose lessonId is lid.
startPolling(p, lid) ==
    LET cleared == IF p.pollRef # NoTimer
                   THEN clearInterval(p.timers, p.pollRef)
                   ELSE p.timers
    IN  [pollRef |-> p.nextTimer,
         timers |-> cleared \cup {[id |-> p.nextTimer, lid |-> lid]},
         nextTimer |-> p.nextTimer + 1]

\* The status check with UPLOADED missing from the processing list.
evaluateAndSchedule_skipsUploaded(p, lid, st) ==
    IF st \in PROCESSING_STATUSES \ {"UPLOADED"}
    THEN startPolling(p, lid)
    ELSE p

\* The status check of loadLesson after setLesson(data).
evaluateAndSchedule(p, lid, st) ==
    IF st \in PROCESSING_STATUSES THEN startPolling(p, lid) ELSE p

\* The callback clearing the interval but keeping the handle in pollRef.
stopIfLeftProcessing_keepsHandle(p, st) ==
    IF st \notin PROCESSING_STATUSES /\ p.pollRef # NoTimer
    THEN [p EXCEPT !.timers = clearInterval(p.timers, p.pollRef)]
    ELSE p

\* The status check of the interval callback after setLesson(data).
stopIfLeftProcessing(p, st) ==
    IF st \notin PROCESSING_STATUSES /\ p.pollRef # NoTimer
    THEN [p EXCEPT !.timers = clearInterval(p.timers, p.pollRef),
                   !.pollRef = NoTimer]
    ELSE p

\* A cleanup that forgets the handle instead of clearing the interval.
cleanup_noClear(p) == [p EXCEPT !.pollRef = NoTimer]

\* The cleanup returned by the effect.
cleanup(p) ==
    IF p.pollRef # NoTimer
    THEN [p EXCEPT !.timers = clearInterval(p.timers, p.pollRef)]
    ELSE p

\* The Button of the retry control is given isLoading={isRetrying}.
ButtonDisabled(busy) == busy

Init ==
    /\ lessonId = "A"
    /\ mounted = TRUE
    /\ epoch = 0
    /\ lesson = NoLesson
    /\ isLoading = TRUE
    /\ isRetrying = FALSE
    /\ pollRef = NoTimer
    /\ timers = {}
    /\ nextTimer = 1
    /\ backend \in {b \in [LessonIds -> Statuses] : b["B"] \in InitialStatusesB}
    /\ stored = [lid \in LessonIds |-> [o \in OutputIds |-> "generated"]]
    /\ inflight = SetToBag({[kind |-> "load", lid |-> "A",
                             status |-> backend["A"], gen |-> 0,
                             viaRetry |-> FALSE, tid |-> NoTimer, oid |-> 0,
                             captured |-> NoLesson, snap |-> stored["A"]]})
    /\ cont = NoCont
    /\ location = "/lessons"
    /\ nRetries = 0
    /\ event = [op |-> "mount", lid |-> "A", status |-> "none", stale |-> FALSE]
    /\ nEdits = 0
    /\ badges = <<>>
    /\ rendered = <<>>
    /\ token = "null"
    /\ href = "/"
    /\ pending = EmptyBag
    /\ outcome = [state |-> "none", http |-> 0]
    /\ history = <<>>
    /\ screen = "none"
    /\ user = "null"
    /\ form = [password |-> <<>>, confirmPassword |-> <<>>]
    /\ reg = [error |-> "", isLoading |-> FALSE, token |-> "null",
              user |-> "null", history |-> <<>>]
    /\ rec = [isRecording |-> FALSE, recordingTime |-> 0,
              audioBlob |-> "null", error |-> "", mounted |-> FALSE]
    /\ refs = [mediaRecorder |-> NoRecorder, timer |-> NoTimer]
    /\ media = [asking |-> 0, recorders |-> <<>>, intervals |-> {},
                starts |-> 0]

\* loadLesson resumes with the response of lessonsApi.get.
LoadOk(r) ==
    /\ cont = NoCont
    /\ BagIn(r, inflight)
    /\ r.kind = "load"
    /\ inflight' = Settle(inflight, r)
    /\ lesson' = LessonDetail(r.lid, r.status, r.snap)
    /\ SetPoll(evaluateAndSchedule(PollState, r.lid, r.status))
    /\ isLoading' = FALSE
    /\ cont' = IF r.viaRetry
               THEN [lid |-> r.lid, status |-> r.status, gen |-> r.gen]
               ELSE NoCont
    /\ event' = Event("loadOk", r.lid, r.status, r.gen)
    /\ UNCHANGED <<lessonId, mounted, epoch, isRetrying, location, backend,
                   nRetries, outputs, aside>>

\* loadLesson calling itself again from its catch block.
LoadFail_retries(r) ==
    /\ cont = NoCont
    /\ BagIn(r, inflight)
    /\ r.kind = "load"
    /\ inflight' = inflight
    /\ location' = "/"
    /\ isLoading' = FALSE
    /\ cont' = NoCont
    /\ event' = Event("loadFail", r.lid, "ERROR", r.gen)
    /\ UNCHANGED <<lessonId, mounted, epoch, lesson, isRetrying, poll, backend,
                   nRetries, outputs, aside>>

\* loadLesson resumes with the rejection of lessonsApi.get.
LoadFail(r) ==
    /\ cont = NoCont
    /\ BagIn(r, inflight)
    /\ r.kind = "load"
    /\ inflight' = Settle(inflight, r)
    /\ location' = "/"
    /\ isLoading' = FALSE
    /\ cont' = IF r.viaRetry
               THEN [lid |-> r.lid, status |-> "ERROR", gen |-> r.gen]
               ELSE NoCont
    /\ event' = Event("loadFail", r.lid, "ERROR", r.gen)
    /\ UNCHANGED <<lessonId, mounted, epoch, lesson, isRetrying, poll, backend,
                   nRetries, outputs, aside>>

\* The callback calling lessonsApi.get twice per firing.
TimerFire_twice(t) ==
    /\ cont = NoCont
    /\ t \in timers
    /\ BagCardinality(inflight) + 1 < MaxInFlight
    /\ inflight' = Issue(Issue(inflight,
                               [Request("tick", t.lid, backend[t.lid], FALSE)
                                  EXCEPT !.tid = t.id]),
                         [Request("tick", t.lid, backend[t.lid], FALSE)
                            EXCEPT !.tid = t.id])
    /\ event' = Event("tick", t.lid, "none", epoch)
    /\ UNCHANGED <<view, poll, cont, backend, nRetries, outputs, aside>>

\* A live interval timer fires: the callback runs up to its await.
TimerFire(t) ==
    /\ cont = NoCont
    /\ t \in timers
    /\ MayIssue
    /\ inflight' = Issue(inflight,
                         [Request("tick", t.lid, backend[t.lid], FALSE)
                            EXCEPT !.tid = t.id])
    /\ event' = Event("tick", t.lid, "none", epoch)
    /\ UNCHANGED <<view, poll, cont, backend, nRetries, outputs, aside>>

\* The interval callback resumes with the response of lessonsApi.get.
TickOk(r) ==
    /\ cont = NoCont
    /\ BagIn(r, inflight)
    /\ r.kind = "tick"
    /\ inflight' = Settle(inflight, r)
    /\ lesson' = LessonDetail(r.lid, r.status, r.snap)
    /\ SetPoll(stopIfLeftProcessing(PollState, r.status))
    /\ event' = Event("tickOk", r.lid, r.status, r.gen)
    /\ UNCHANGED <<lessonId, mounted, epoch, isLoading, isRetrying, location,
                   cont, backend, nRetries, outputs, aside>>

\* The callback stopping the poll in its catch block.
TickFail_cancels(r) ==
    /\ cont = NoCont
    /\ BagIn(r, inflight)
    /\ r.kind = "tick"
    /\ inflight' = Settle(inflight, r)
    /\ SetPoll([PollState EXCEPT !.timers = clearInterval(timers, pollRef),
                                 !.pollRef = NoTimer])
    /\ event' = Event("tickFail", r.lid, "ERROR", r.gen)
    /\ UNCHANGED <<view, cont, backend, nRetries, outputs, aside>>

\* The interval callback resumes with the rejection of lessonsApi.get.
TickFail(r) ==
    /\ cont = NoCont
    /\ BagIn(r, inflight)
    /\ r.kind = "tick"
    /\ inflight' = Settle(inflight, r)
    /\ event' = Event("tickFail", r.lid, "ERROR", r.gen)
    /\ UNCHANGED <<view, poll, cont, backend, nRetries, outputs, aside>>

\* A retry control rendered whatever the held status.
RetryOffered_always ==
    /\ mounted
    /\ ~isLoading
    /\ lesson # NoLesson

\* The retry control is rendered: the view is past its spinner, holds a
\* lesson, and the held lesson is FAILED.
RetryOffered ==
    /\ mounted
    /\ ~isLoading
    /\ lesson # NoLesson
    /\ lesson.status = "FAILED"

\* reprocessLesson at the service: an accepted request restarts the pipeline.
Reprocess(b, lid, accepted) ==
    IF accepted THEN [b EXCEPT ![lid] = "UPLOADED"] ELSE b

\* A click on the retry control: handleRetry runs up to its first await.
handleRetry(accepted) ==
    /\ cont = NoCont
    /\ RetryOffered
    /\ ~ButtonDisabled(isRetrying)
    /\ nRetries < MaxRetries
    /\ MayIssue
    /\ nRetries' = nRetries + 1
    /\ isRetrying' = TRUE
    /\ inflight' = Issue(inflight,
                         Request("process", lessonId,
                                 IF accepted THEN "ACCEPTED" ELSE "REJECTED",
                                 TRUE))
    /\ backend' = Reprocess(backend, lessonId, accepted)
    /\ event' = Event("retry", lessonId, lesson.status, epoch)
    /\ UNCHANGED <<lessonId, mounted, epoch, lesson, isLoading, location,
                   poll, cont, outputs, aside>>

\* handleRetry resumes after lessonsApi.process and calls loadLesson, which
\* runs up to its await.
ProcessOk(r) ==
    /\ cont = NoCont
    /\ BagIn(r, inflight)
    /\ r.kind = "process"
    /\ r.status = "ACCEPTED"
    /\ inflight' = Issue(Settle(inflight, r),
                         [kind |-> "load", lid |-> r.lid,
                          status |-> backend[r.lid], gen |-> r.gen,
                          viaRetry |-> TRUE, tid |-> NoTimer, oid |-> 0,
                          captured |-> NoLesson, snap |-> stored[r.lid]])
    /\ event' = Event("processOk", r.lid, "none", r.gen)
    /\ UNCHANGED <<view, poll, cont, backend, nRetries, outputs, aside>>

\* handleRetry reloading the lesson although lessonsApi.process was rejected.
ProcessFail_loadsAnyway(r) ==
    /\ cont = NoCont
    /\ BagIn(r, inflight)
    /\ r.kind = "process"
    /\ inflight' = Issue(Settle(inflight, r),
                         [kind |-> "load", lid |-> r.lid,
                          status |-> backend[r.lid], gen |-> r.gen,
                          viaRetry |-> TRUE, tid |-> NoTimer, oid |-> 0,
                          captured |-> NoLesson, snap |-> stored[r.lid]])
    /\ event' = Event("processFail", r.lid, "ERROR", r.gen)
    /\ UNCHANGED <<view, poll, cont, backend, nRetries, outputs, aside>>

\* handleRetry resumes with the rejection of lessonsApi.process: catch, finally.
ProcessFail(r) ==
    /\ cont = NoCont
    /\ BagIn(r, inflight)
    /\ r.kind = "process"
    /\ inflight' = Settle(inflight, r)
    /\ isRetrying' = FALSE
    /\ event' = Event("processFail", r.lid, "ERROR", r.gen)
    /\ UNCHANGED <<lessonId, mounted, epoch, lesson, isLoading, location,
                   poll, cont, backend, nRetries, outputs, aside>>

\* handleRetry without its finally block.
RetryResume_staysBusy ==
    /\ cont # NoCont
    /\ SetPoll(startPolling(PollState, cont.lid))
    /\ cont' = NoCont
    /\ event' = Event("retryDone", cont.lid, cont.status, cont.gen)
    /\ UNCHANGED <<lessonId, mounted, epoch, lesson, isLoading, isRetrying,
                   location, inflight, backend, nRetries, outputs, aside>>

\* handleRetry resumes after "await loadLesson()": loadLesson catches its own
\* errors, so the await never throws; startPolling(), then finally.
RetryResume ==
    /\ cont # NoCont
    /\ SetPoll(startPolling(PollState, cont.lid))
    /\ isRetrying' = FALSE
    /\ cont' = NoCont
    /\ event' = Event("retryDone", cont.lid, cont.status, cont.gen)
    /\ UNCHANGED <<lessonId, mounted, epoch, lesson, isLoading, location,
                   inflight, backend, nRetries, outputs, aside>>

\* The view is torn down: the effect cleanup runs.
Unmount ==
    /\ cont = NoCont
    /\ mounted
    /\ mounted' = FALSE
    /\ epoch' = epoch + 1
    /\ SetPoll(cleanup(PollState))
    /\ event' = Event("dispose", lessonId, "none", epoch)
    /\ UNCHANGED <<lessonId, lesson, isLoading, isRetrying, location,
                   inflight, cont, backend, nRetries, outputs, aside>>

\* The route parameter changes: the cleanup of the old effect runs, then the
\* effect runs again and calls loadLesson, which runs up to its await.
LessonIdChange(new) ==
    /\ cont = NoCont
    /\ mounted
    /\ new # lessonId
    /\ epoch < MaxSwitches
    /\ MayIssue
    /\ lessonId' = new
    /\ epoch' = epoch + 1
    /\ SetPoll(cleanup(PollState))
    /\ inflight' = Issue(inflight,
                         [kind |-> "load", lid |-> new, status |-> backend[new],
                          gen |-> epoch + 1, viaRetry |-> FALSE,
                          tid |-> NoTimer, oid |-> 0, captured |-> NoLesson,
                          snap |-> stored[new]])
    /\ event' = Event("dispose", new, "none", epoch)
    /\ UNCHANGED <<mounted, lesson, isLoading, isRetrying, location, cont,
                   backend, nRetries, outputs, aside>>

\* The outputs section is rendered, one OutputCard per held output.
OutputsShown ==
    /\ mounted
    /\ ~isLoading
    /\ lesson # NoLesson
    /\ lesson.status = "COMPLETED"
    /\ Len(lesson.outputs) > 0

\* The transcript section is rendered.
TranscriptShown ==
    /\ mounted
    /\ ~isLoading
    /\ lesson # NoLesson
    /\ lesson.status = "COMPLETED"
    /\ lesson.transcript # ""

\* The output the service answers an update or a revert with.
UpdatedOutput(o, content) ==
    [o EXCEPT !.content = content, !.is_edited = (content = "edited")]

\* handleOutputUpdate spreading the lesson held now, with the outputs of l.
handleOutputUpdate_spreadsHeld(held, l, updated) ==
    [held EXCEPT !.outputs =
        [i \in DOMAIN l.outputs |->
            IF l.outputs[i].id = updated.id THEN updated ELSE l.outputs[i]]]

\* handleOutputUpdate of the render that held the lesson l.
handleOutputUpdate(held, l, updated) ==
    IF l # NoLesson
    THEN [l EXCEPT !.outputs =
             [i \in DOMAIN l.outputs |->
                 IF l.outputs[i].id = updated.id THEN updated
                 ELSE l.outputs[i]]]
    ELSE held

\* A click on an output card's save (content "edited") or revert (content
\* "generated") control: the handler runs up to its await.  The request
\* keeps the onUpdate it was rendered with, which closes over the held lesson.
EditClick(kind, i, content, accepted) ==
    /\ cont = NoCont
    /\ OutputsShown
    /\ i \in DOMAIN lesson.outputs
    /\ nEdits < MaxEdits
    /\ MayIssue
    /\ nEdits' = nEdits + 1
    /\ inflight' = Issue(inflight,
                         [Request(kind, lesson.id,
                                  IF accepted THEN "ACCEPTED" ELSE "REJECTED",
                                  FALSE)
                            EXCEPT !.oid = lesson.outputs[i].id,
                                   !.captured = lesson,
                                   !.snap = [stored[lesson.id] EXCEPT
                                                ![lesson.outputs[i].id] =
                                                    content]])
    /\ stored' = IF accepted
                 THEN [stored EXCEPT
                          ![lesson.id][lesson.outputs[i].id] = content]
                 ELSE stored
    /\ event' = Event(kind, lesson.id, lesson.status, epoch)
    /\ UNCHANGED <<view, poll, cont, backend, nRetries, aside>>

\* OutputCard.handleSave up to "await outputsApi.update".
handleSave(i, accepted) == EditClick("save", i, "edited", accepted)

\* OutputCard.handleRevert up to "await outputsApi.revert"; the control is
\* rendered for an edited output only.
handleRevert(i, accepted) ==
    /\ i \in DOMAIN lesson.outputs
    /\ lesson.outputs[i].is_edited
    /\ EditClick("revert", i, "generated", accepted)

\* handleSave or handleRevert resumes with the response: onUpdate(data).
UpdateOk(r) ==
    /\ cont = NoCont
    /\ BagIn(r, inflight)
    /\ r.kind \in {"save", "revert"}
    /\ r.status = "ACCEPTED"
    /\ inflight' = Settle(inflight, r)
    /\ \E i \in DOMAIN r.captured.outputs :
          /\ r.captured.outputs[i].id = r.oid
          /\ lesson' = handleOutputUpdate(
                           lesson, r.captured,
                           UpdatedOutput(r.captured.outputs[i], r.snap[r.oid]))
    /\ event' = Event("updateOk", r.lid, r.captured.status, r.gen)
    /\ UNCHANGED <<lessonId, mounted, epoch, isLoading, isRetrying, location,
                   poll, cont, backend, nRetries, outputs, aside>>

\* handleSave or handleRevert resumes with the rejection: the error is logged.
UpdateFail(r) ==
    /\ cont = NoCont
    /\ BagIn(r, inflight)
    /\ r.kind \in {"save", "revert"}
    /\ inflight' = Settle(inflight, r)
    /\ event' = Event("updateFail", r.lid, "ERROR", r.gen)
    /\ UNCHANGED <<view, poll, cont, backend, nRetries, outputs, aside>>

\* The pipeline of the service moves a lesson to its next status.
NextStatuses(st) ==
    CASE st = "CREATED" -> {"UPLOADED"}
      [] st = "UPLOADED" -> {"TRANSCRIBING", "FAILED"}
      [] st = "TRANSCRIBING" -> {"EXTRACTING", "FAILED"}
      [] st = "EXTRACTING" -> {"GENERATING", "FAILED"}
      [] st = "GENERATING" -> {"COMPLETED", "FAILED"}
      [] OTHER -> {}

BackendAdvance(lid) ==
    /\ cont = NoCont
    /\ \E st \in NextStatuses(backend[lid]) :
          backend' = [backend EXCEPT ![lid] = st]
    /\ UNCHANGED <<view, poll, inflight, cont, nRetries, event, outputs, aside>>

Next ==
    \/ \E r \in BagToSet(inflight) : LoadOk(r)
    \/ \E r \in BagToSet(inflight) : LoadFail(r)
    \/ \E t \in timers : TimerFire(t)
    \/ \E r \in BagToSet(inflight) : TickOk(r)
    \/ \E r \in BagToSet(inflight) : TickFail(r)
    \/ \E accepted \in BOOLEAN : handleRetry(accepted)
    \/ \E r \in BagToSet(inflight) : ProcessOk(r)
    \/ \E r \in BagToSet(inflight) : ProcessFail(r)
    \/ RetryResume
    \/ Unmount
    \/ \E new \in LessonIds : LessonIdChange(new)
    \/ \E lid \in LessonIds : BackendAdvance(lid)
    \/ \E i \in DOMAIN lesson.outputs, accepted \in BOOLEAN :
          handleSave(i, accepted)
    \/ \E i \in DOMAIN lesson.outputs, accepted \in BOOLEAN :
          handleRevert(i, accepted)
    \/ \E r \in BagToSet(inflight) : UpdateOk(r)
    \/ \E r \in BagToSet(inflight) : UpdateFail(r)

Spec == Init /\ [][Next]_vars

(***************************************************************************)
(* StatusBadge: a pure component, applied to every status string on screen. *)
(***************************************************************************)
\* The object literal statusConfig.
statusConfig ==
    [st \in Statuses |->
        CASE st = "CREATED" -> [label |-> "Created", color |-> "bg-gray-600"]
          [] st = "UPLOADED" -> [label |-> "Uploaded", color |-> "bg-blue-600"]
          [] st = "TRANSCRIBING" ->
                [label |-> "Transcribing...", color |-> "bg-yellow-600"]
          [] st = "EXTRACTING" ->
                [label |-> "Analyzing...", color |-> "bg-yellow-600"]
          [] st = "GENERATING" ->
                [label |-> "Generating...", color |-> "bg-yellow-600"]
          [] st = "COMPLETED" ->
                [label |-> "Completed", color |-> "bg-emerald-600"]
          [] st = "FAILED" -> [label |-> "Failed", color |-> "bg-red-600"]]

\* Names every object literal inherits from Object.prototype; their values
\* are functions (or, for __proto__, the prototype object).
ObjectPrototype ==
    {"constructor", "toString", "valueOf", "hasOwnProperty", "__proto__"}

\* Status strings that are not in the enumeration.
OtherStrings == {"UNKNOWN", "", "constructor", "toString"}

\* statusConfig[key]: an own property, else an inherited one, else undefined.
\* The value is given by its kind and by what reading .label and .color of
\* it yields.
Lookup(key) ==
    IF key \in DOMAIN statusConfig
    THEN [kind |-> "config", label |-> statusConfig[key].label,
          color |-> statusConfig[key].color]
    ELSE IF key \in ObjectPrototype
    THEN [kind |-> "inherited", label |-> "undefined", color |-> "undefined"]
    ELSE [kind |-> "undefined", label |-> "undefined", color |-> "undefined"]

\* JavaScript truthiness of a looked-up value.
Truthy(v) == v.kind # "undefined"

\* StatusBadge({ status }): the label and the colour class of the span.
StatusBadge(status) ==
    LET config == IF Truthy(Lookup(status))
                  THEN Lookup(status)
                  ELSE [kind |-> "config", label |-> status,
                        color |-> "bg-gray-600"]
    IN  [label |-> config.label, color |-> config.color]

NotRendered == [label |-> "none", color |-> "none"]

\* The view beside the badges is not part of this specification.
NoPage ==
    /\ lessonId = "A"
    /\ mounted = FALSE
    /\ epoch = 0
    /\ lesson = NoLesson
    /\ isLoading = TRUE
    /\ isRetrying = FALSE
    /\ pollRef = NoTimer
    /\ timers = {}
    /\ nextTimer = 1
    /\ backend = [lid \in LessonIds |-> "CREATED"]
    /\ stored = [lid \in LessonIds |-> [o \in OutputIds |-> "generated"]]
    /\ inflight = EmptyBag
    /\ cont = NoCont
    /\ location = "/"
    /\ nRetries = 0
    /\ event = [op |-> "none", lid |-> "A", status |-> "none", stale |-> FALSE]
    /\ nEdits = 0

\* The request layer is not part of this specification.
NoRequests ==
    /\ token = "null"
    /\ href = "/"
    /\ pending = EmptyBag
    /\ outcome = [state |-> "none", http |-> 0]

\* The routes are not part of this specification.
NoRouter ==
    /\ history = <<>>
    /\ screen = "none"

\* The registration page is not part of this specification.
NoRegister ==
    /\ user = "null"
    /\ form = [password |-> <<>>, confirmPassword |-> <<>>]
    /\ reg = [error |-> "", isLoading |-> FALSE, token |-> "null",
              user |-> "null", history |-> <<>>]

\* The record page is not part of this specification.
NoRecordPage ==
    /\ rec = [isRecording |-> FALSE, recordingTime |-> 0,
              audioBlob |-> "null", error |-> "", mounted |-> FALSE]
    /\ refs = [mediaRecorder |-> NoRecorder, timer |-> NoTimer]
    /\ media = [asking |-> 0, recorders |-> <<>>, intervals |-> {},
                starts |-> 0]

\* Up to MaxBadges badges are on screen, each given any status string.
InitBadge ==
    /\ NoPage
    /\ NoRequests
    /\ NoRouter
    /\ NoRegister
    /\ NoRecordPage
    /\ badges \in UNION {[1..n -> Statuses \cup OtherStrings] :
                             n \in 1..MaxBadges}
    /\ rendered = [i \in DOMAIN badges |-> NotRendered]

\* React renders the i-th badge.
RenderBadge(i) ==
    /\ rendered[i] = NotRendered
    /\ rendered' = [rendered EXCEPT ![i] = StatusBadge(badges[i])]
    /\ UNCHANGED <<page, recorder, badges, auth, router, register>>

NextBadge == \E i \in DOMAIN badges : RenderBadge(i)

SpecBadge == InitBadge /\ [][NextBadge]_vars

\* The shape of the state; every live timer is the one pollRef.current names.
TypeOK ==
    /\ \A t \in timers : t.id = pollRef
    /\ lessonId \in LessonIds
    /\ mounted \in BOOLEAN
    /\ isLoading \in BOOLEAN
    /\ isRetrying \in BOOLEAN
    /\ pollRef \in 0..(nextTimer - 1)
    /\ \A t \in timers : t.id \in 1..(nextTimer - 1) /\ t.lid \in LessonIds
    /\ backend \in [LessonIds -> Statuses]
    /\ location \in {"/lessons", "/"}

(***************************************************************************)
(* Steps, as seen from outside: the requests a step issues and settles.    *)
(***************************************************************************)
IssuedInStep ==
    {r \in BagToSet(inflight') : CopiesIn(r, inflight') > CopiesIn(r, inflight)}

SettledInStep ==
    {r \in BagToSet(inflight) : CopiesIn(r, inflight') < CopiesIn(r, inflight)}

TickOkStep == event'.op = "tickOk" /\ inflight' # inflight
TickFailStep == event'.op = "tickFail" /\ inflight' # inflight
LoadFailStep ==
    event'.op = "loadFail" /\ (event' # event \/ inflight' # inflight)
RetryClickStep == event'.op = "retry" /\ inflight' # inflight
TimerFireStep == event'.op = "tick" /\ inflight' # inflight
GetOkStep == event'.op \in {"loadOk", "tickOk"} /\ inflight' # inflight
UpdateOkStep == event'.op = "updateOk" /\ inflight' # inflight

\* evaluateAndSchedule has just run on a lesson: loadLesson has finished its
\* status check, or handleRetry has finished after its reload.
Evaluated == event.op \in {"loadOk", "retryDone"}

\* C1: at most one poll timer is live per lesson view, in every reachable
\* state, under any interleaving of load, startPolling, ticks, retry and
\* dispose.
C1_AtMostOneTimer == Cardinality(timers) <= 1

\* A poll was restarted while one was active, and one timer remains.
C1_Witness ==
    /\ event.op = "retryDone"
    /\ event.status \in PROCESSING_STATUSES
    /\ nextTimer >= 3
    /\ Cardinality(timers) = 1

\* C2: once evaluateAndSchedule has run on a lesson whose status is UPLOADED,
\* TRANSCRIBING, EXTRACTING or GENERATING, on the initial-load path or on the
\* retry path, exactly one poll timer is active, the one pollRef names.
C2_ProcessingLeavesOneTimer ==
    (Evaluated /\ event.status \in PROCESSING_STATUSES)
        => /\ Cardinality(timers) = 1
           /\ \A t \in timers : t.id = pollRef

C2_Witness ==
    /\ event.op = "loadOk"
    /\ event.status = "GENERATING"
    /\ lesson.status = "GENERATING"
    /\ Cardinality(timers) = 1

\* C3 as claimed: once evaluateAndSchedule has run on a lesson whose status
\* is COMPLETED or FAILED, on the initial-load path or at the end of retry,
\* no poll timer is active.  Stated for a view whose cleanup never ran.
C3_TerminalLeavesNoTimer ==
    (epoch = 0 /\ Evaluated /\ event.status \in TERMINAL_STATUSES)
        => timers = {}

\* C4 as claimed: when the response (or rejection) of a tick fetch arrives
\* after the cleanup has run, the step changes neither the held lesson nor
\* pollRef.current.
C4_StaleTickIgnored ==
    [][((TickOkStep \/ TickFailStep) /\ event'.stale)
          => (lesson' = lesson /\ pollRef' = pollRef)]_vars

\* C5: when a tick's fetch succeeds the held lesson becomes the fetched one;
\* a status outside the processing set makes the tick itself clear the
\* interval and null the handle; a status inside it leaves the timer and the
\* handle as they were.
C5_TickSelfTerminates ==
    [][TickOkStep
          => /\ \E r \in SettledInStep :
                   lesson' = LessonDetail(r.lid, r.status, r.snap)
             /\ event'.status \notin PROCESSING_STATUSES
                   => (timers' = {} /\ pollRef' = NoTimer)
             /\ event'.status \in PROCESSING_STATUSES
                   => (timers' = timers /\ pollRef' = pollRef)]_vars

\* load -> TRANSCRIBING, then a tick -> COMPLETED: no timer, and the completed
\* lesson with its outputs is held.
C5_Witness ==
    /\ event.op = "tickOk"
    /\ event.status = "COMPLETED"
    /\ lesson.status = "COMPLETED"
    /\ Len(lesson.outputs) > 0
    /\ timers = {}
    /\ pollRef = NoTimer

\* C6: when a tick's fetch fails the error is swallowed: the timer is not
\* cancelled and the held lesson and all other tracker state are unchanged,
\* so the interval keeps firing.
C6_TickFailureSwallowed ==
    [][TickFailStep
          => UNCHANGED <<lessonId, mounted, epoch, lesson, isLoading,
                         isRetrying, location, pollRef, timers, nextTimer,
                         cont>>]_vars

\* A tick has failed, the timer is still live and can fire again.
C6_Witness ==
    /\ event.op = "tickFail"
    /\ Cardinality(timers) = 1
    /\ lesson.status \in PROCESSING_STATUSES
    /\ ENABLED (\E t \in timers : TimerFire(t))

\* C7: when load's fetch fails, the view navigates to "/", the held lesson is
\* unchanged, the loading flag is cleared, load starts no poll timer and
\* issues no second fetch.
C7_LoadFailure ==
    [][LoadFailStep
          => /\ location' = "/"
             /\ lesson' = lesson
             /\ isLoading' = FALSE
             /\ UNCHANGED <<pollRef, timers, nextTimer>>
             /\ IssuedInStep = {}
             /\ BagCardinality(inflight') = BagCardinality(inflight) - 1]_vars

C7_Witness ==
    /\ event.op = "loadFail"
    /\ location = "/"
    /\ lesson = NoLesson
    /\ ~isLoading
    /\ timers = {}
    /\ inflight = EmptyBag

\* C8: retry, offered on a held FAILED lesson, first calls reprocess and
\* nothing else; the lesson is fetched again only in the step in which an
\* accepted reprocess call returns; and when retry ends on a reloaded
\* processing status exactly one timer polls.
C8_RetryOrdering ==
    [][/\ RetryClickStep
            => /\ lesson.status = "FAILED"
               /\ \A r \in IssuedInStep : r.kind = "process" /\ r.lid = lessonId
               /\ Cardinality(IssuedInStep) = 1
       /\ \A r \in IssuedInStep :
             (r.kind = "load" /\ r.viaRetry)
                => \E q \in SettledInStep :
                      /\ q.kind = "process"
                      /\ q.status = "ACCEPTED"
                      /\ q.lid = r.lid
       /\ (event'.op = "retryDone" /\ event' # event
              /\ event'.status \in PROCESSING_STATUSES)
            => Cardinality(timers') = 1]_vars

\* FAILED was held with no timer, retry ran, the reload returned UPLOADED and
\* polling is active again.
C8_Witness ==
    /\ event.op = "retryDone"
    /\ event.status = "UPLOADED"
    /\ lesson.status = "UPLOADED"
    /\ nRetries = 1
    /\ ~isRetrying
    /\ Cardinality(timers) = 1

\* C9: immediately after the effect cleanup (unmount or lessonId change) no
\* poll timer is active.
C9_DisposeCancels == event.op = "dispose" => timers = {}

\* The cleanup ran while a poll timer was scheduled.
C9_Witness ==
    /\ event.op = "dispose"
    /\ pollRef # NoTimer
    /\ lesson.status \in PROCESSING_STATUSES
    /\ timers = {}

\* C10 as claimed: while the view has not been disposed and the held status
\* is in the processing set, a poll timer is active (so a terminal status of
\* the backend is eventually seen).
C10_ProcessingImpliesPolling ==
    (mounted /\ epoch = 0 /\ lesson.status \in PROCESSING_STATUSES)
        => timers # {}

(***************************************************************************)
(* The request layer: the axios instance of services/api and its two        *)
(* interceptors.                                                            *)
(***************************************************************************)
\* The HTTP status of a response; NoResponse stands for an error without a
\* response (the network failed), where error.response is undefined.
NoResponse == 0
HttpOk == {200, 201}
HttpError == {400, 401, 403, 404, 500}
HttpStatuses == HttpOk \cup HttpError \cup {NoResponse}

\* useAuthStore.getState().logout()
logout(s) == [s EXCEPT !.token = "null"]

\* The error handler logging out on every 4xx response.
responseError_any4xx(s, http) ==
    IF http \in {400, 401, 403, 404}
    THEN [logout(s) EXCEPT !.href = "/login"]
    ELSE s

\* The error handler of the response interceptor, before it rejects: s is
\* the session (token and window.location.href).
responseError(s, http) ==
    IF http = 401
    THEN [logout(s) EXCEPT !.href = "/login"]
    ELSE s

InitApi ==
    /\ NoPage
    /\ badges = <<>>
    /\ rendered = <<>>
    /\ token \in {"null", "t1"}
    /\ href \in {"/", "/login"}
    /\ pending = EmptyBag
    /\ outcome = [state |-> "none", http |-> 0]
    /\ NoRouter
    /\ NoRegister
    /\ NoRecordPage

\* A call through the axios instance: the request interceptor adds the
\* Authorization header when the store holds a token; the service answers
\* with some status.
ApiRequest(http) ==
    /\ BagCardinality(pending) < MaxPending
    /\ pending' = Issue(pending,
                        [http |-> http,
                         authorization |-> IF token # "null"
                                           THEN "Bearer t1" ELSE "none"])
    /\ UNCHANGED <<page, recorder, badges, rendered, token, href, outcome,
                   router, register>>

\* The response interceptor handles a response or an error.
ApiResponse(r) ==
    /\ BagIn(r, pending)
    /\ pending' = Settle(pending, r)
    /\ IF r.http \in HttpOk
       THEN /\ outcome' = [state |-> "fulfilled", http |-> r.http]
            /\ UNCHANGED <<token, href>>
       ELSE /\ token' = responseError([token |-> token, href |-> href],
                                      r.http).token
            /\ href' = responseError([token |-> token, href |-> href],
                                     r.http).href
            /\ outcome' = [state |-> "rejected", http |-> r.http]
    /\ UNCHANGED <<page, recorder, badges, rendered, router, register>>

\* A login or registration stores a token (setToken).
SetToken ==
    /\ token = "null"
    /\ token' = "t1"
    /\ UNCHANGED <<page, recorder, badges, rendered, href, pending, outcome,
                   router, register>>

NextApi ==
    \/ \E http \in HttpStatuses : ApiRequest(http)
    \/ \E r \in BagToSet(pending) : ApiResponse(r)
    \/ SetToken

SpecApi == InitApi /\ [][NextApi]_vars

ApiResponseStep == BagCardinality(pending') < BagCardinality(pending)

\* The response the step hands to the interceptor.
Handled ==
    {r \in BagToSet(pending) : CopiesIn(r, pending') < CopiesIn(r, pending)}

(***************************************************************************)
(* The routes of App: two public pages, and four pages under ProtectedRoute. *)
(***************************************************************************)
ProtectedPaths == {"/", "/students/1", "/record/1", "/lessons/A"}
PublicPaths == {"/login", "/register"}

\* The element each Route gives for its path.
PageOf(path) ==
    CASE path = "/login" -> "LoginPage"
      [] path = "/register" -> "RegisterPage"
      [] path = "/" -> "HomePage"
      [] path = "/students/1" -> "StudentPage"
      [] path = "/record/1" -> "RecordPage"
      [] path = "/lessons/A" -> "LessonPage"

ProtectedPages == {PageOf(path) : path \in ProtectedPaths}

\* !token: null and the empty string are falsy.
Falsy(tok) == tok \in {"null", ""}

\* A ProtectedRoute that renders its children whatever the token.
ProtectedRoute_noGuard(tok, children) == children

\* ProtectedRoute({ children }) with the token the store holds.
ProtectedRoute(tok, children) ==
    IF Falsy(tok) THEN "Navigate" ELSE children

\* What Routes renders at a location.
Routes(path, tok) ==
    IF path \in ProtectedPaths
    THEN ProtectedRoute(tok, PageOf(path))
    ELSE PageOf(path)

Top(h) == h[Len(h)]

InitRoute ==
    /\ NoPage
    /\ badges = <<>>
    /\ rendered = <<>>
    /\ token \in {"null", "", "t1"}
    /\ href = "/"
    /\ pending = EmptyBag
    /\ outcome = [state |-> "none", http |-> 0]
    /\ \E path \in ProtectedPaths \cup PublicPaths :
          /\ history = <<path>>
          /\ screen = Routes(path, token)
    /\ NoRegister
    /\ NoRecordPage

\* A link or navigate(path): a new history entry, rendered.
Go(path) ==
    /\ screen # "Navigate"
    /\ Len(history) < MaxHistory
    /\ history' = Append(history, path)
    /\ screen' = Routes(path, token)
    /\ UNCHANGED <<page, recorder, badges, rendered, auth, register>>

\* The browser's back button.
Back ==
    /\ screen # "Navigate"
    /\ Len(history) > 1
    /\ history' = SubSeq(history, 1, Len(history) - 1)
    /\ screen' = Routes(Top(history'), token)
    /\ UNCHANGED <<page, recorder, badges, rendered, auth, register>>

\* The rendered <Navigate to="/login" replace /> takes effect.
Redirect ==
    /\ screen = "Navigate"
    /\ history' = [history EXCEPT ![Len(history)] = "/login"]
    /\ screen' = Routes("/login", token)
    /\ UNCHANGED <<page, recorder, badges, rendered, auth, register>>

\* Header.handleLogout: logout(), then navigate('/login'); the header is part
\* of the layout of the protected pages.
handleLogout ==
    /\ screen \in ProtectedPages
    /\ Len(history) < MaxHistory
    /\ token' = logout([token |-> token, href |-> href]).token
    /\ history' = Append(history, "/login")
    /\ screen' = Routes("/login", token')
    /\ UNCHANGED <<page, recorder, badges, rendered, href, pending, outcome,
                   register>>

\* A request of a protected page is answered 401: the response interceptor
\* clears the session and the store's subscribers render again.
Unauthorized ==
    /\ screen \in ProtectedPages
    /\ token' = responseError([token |-> token, href |-> href], 401).token
    /\ href' = responseError([token |-> token, href |-> href], 401).href
    /\ screen' = Routes(Top(history), token')
    /\ UNCHANGED <<page, recorder, badges, rendered, pending, outcome, history,
                   register>>

\* A login stores the token the service returned, and navigates home.
Login(tok) ==
    /\ screen = "LoginPage"
    /\ Len(history) < MaxHistory
    /\ token' = tok
    /\ history' = Append(history, "/")
    /\ screen' = Routes("/", tok)
    /\ UNCHANGED <<page, recorder, badges, rendered, href, pending, outcome,
                   register>>

NextRoute ==
    \/ \E path \in ProtectedPaths \cup PublicPaths : Go(path)
    \/ Back
    \/ Redirect
    \/ handleLogout
    \/ Unauthorized
    \/ \E tok \in {"", "t1"} : Login(tok)

SpecRoute == InitRoute /\ [][NextRoute]_vars

(***************************************************************************)
(* RegisterPage: the registration form and its submission.                  *)
(***************************************************************************)
MinPasswordLength == 6

\* Passwords as sequences of characters: empty, one short of the minimum,
\* of the minimum length, and longer.
Passwords ==
    {[i \in 1..n |-> c] : n \in {0, 5, 6, 7}, c \in {"a", "b"}}

InitRegister ==
    /\ NoPage
    /\ badges = <<>>
    /\ rendered = <<>>
    /\ token = "null"
    /\ href = "/register"
    /\ pending = EmptyBag
    /\ outcome = [state |-> "none", http |-> 0]
    /\ history = <<"/register">>
    /\ screen = "RegisterPage"
    /\ user = "null"
    /\ form \in [password : Passwords, confirmPassword : Passwords]
    /\ reg = [error |-> "", isLoading |-> FALSE, token |-> "null",
              user |-> "null", history |-> <<"/register">>]
    /\ NoRecordPage

\* The form is on screen and no submission is awaiting a response.
FormIdle == screen = "RegisterPage" /\ ~ButtonDisabled(reg.isLoading)

\* The user types another password and confirmation.
Retype(f) ==
    /\ FormIdle
    /\ reg.error # ""
    /\ form' = f
    /\ UNCHANGED <<page, recorder, badges, rendered, auth, router, user, reg>>

\* handleSubmit up to its first return or await.
handleSubmit(http) ==
    /\ FormIdle
    /\ IF form.password # form.confirmPassword
       THEN /\ reg' = [error |-> "Passwords do not match",
                       isLoading |-> FALSE, token |-> token, user |-> user,
                       history |-> history]
            /\ pending' = pending
       ELSE IF Len(form.password) < MinPasswordLength
       THEN /\ reg' = [error |-> "Password must be at least 6 characters",
                       isLoading |-> FALSE, token |-> token, user |-> user,
                       history |-> history]
            /\ pending' = pending
       ELSE /\ reg' = [error |-> "", isLoading |-> TRUE, token |-> token,
                       user |-> user, history |-> history]
            /\ pending' = Issue(pending,
                                [call |-> "register", http |-> http,
                                 authorization |-> IF Falsy(token) THEN "none"
                                                   ELSE "Bearer t1"])
    /\ UNCHANGED <<page, recorder, badges, rendered, token, href, outcome,
                   router, user, form>>

\* authApi.register or authApi.me is rejected: the response interceptor
\* runs, then catch and finally of handleSubmit.
SubmitFailed(r) ==
    /\ BagIn(r, pending)
    /\ r.http \notin HttpOk
    /\ pending' = Settle(pending, r)
    /\ token' = responseError([token |-> token, href |-> href], r.http).token
    /\ href' = responseError([token |-> token, href |-> href], r.http).href
    /\ outcome' = [state |-> "rejected", http |-> r.http]
    /\ reg' = [reg EXCEPT !.error = "Registration failed",
                          !.isLoading = FALSE]
    /\ UNCHANGED <<page, recorder, badges, rendered, router, user, form>>

\* authApi.register resolves: setToken, then authApi.me is called.
Registered(r, http) ==
    /\ BagIn(r, pending)
    /\ r.call = "register"
    /\ r.http \in HttpOk
    /\ token' = "t1"
    /\ pending' = Issue(Settle(pending, r),
                        [call |-> "me", http |-> http,
                         authorization |-> "Bearer t1"])
    /\ outcome' = [state |-> "fulfilled", http |-> r.http]
    /\ UNCHANGED <<page, recorder, badges, rendered, href, router, register>>

\* authApi.me resolves: setUser, navigate('/'), finally.
GotUser(r) ==
    /\ BagIn(r, pending)
    /\ r.call = "me"
    /\ r.http \in HttpOk
    /\ pending' = Settle(pending, r)
    /\ user' = "u1"
    /\ history' = Append(history, "/")
    /\ screen' = Routes("/", token)
    /\ outcome' = [state |-> "fulfilled", http |-> r.http]
    /\ reg' = [reg EXCEPT !.isLoading = FALSE]
    /\ UNCHANGED <<page, recorder, badges, rendered, token, href, form>>

NextRegister ==
    \/ \E f \in [password : Passwords, confirmPassword : Passwords] : Retype(f)
    \/ \E http \in HttpStatuses : handleSubmit(http)
    \/ \E r \in BagToSet(pending) : SubmitFailed(r)
    \/ \E r \in BagToSet(pending), http \in HttpStatuses : Registered(r, http)
    \/ \E r \in BagToSet(pending) : GotUser(r)

SpecRegister == InitRegister /\ [][NextRegister]_vars

(***************************************************************************)
(* RecordPage: the record button, the recording timer and the browser's     *)
(* MediaRecorders.                                                          *)
(***************************************************************************)
\* The MediaRecorders of m whose state is "recording".
Recording(m) == {i \in DOMAIN m.recorders : m.recorders[i] = "recording"}

\* MediaRecorder.stop(): a recording recorder becomes inactive at once and
\* its stop event is queued; on an inactive recorder nothing happens.
Stop(recorders, i) ==
    IF recorders[i] = "recording"
    THEN [recorders EXCEPT ![i] = "stopping"]
    ELSE recorders

\* clearInterval(h), called only when h is not null.
ClearIfSet(intervals, h) ==
    IF h # NoTimer THEN intervals \ {h} ELSE intervals

\* React drops a state update of a component that is no longer mounted.
SetState(r, new) == IF r.mounted THEN new ELSE r

\* The page has loaded its student; nothing has been recorded.
InitRecord ==
    /\ NoPage
    /\ badges = <<>>
    /\ rendered = <<>>
    /\ NoRequests
    /\ NoRouter
    /\ NoRegister
    /\ rec = [isRecording |-> FALSE, recordingTime |-> 0,
              audioBlob |-> "null", error |-> "", mounted |-> TRUE]
    /\ refs = [mediaRecorder |-> NoRecorder, timer |-> NoTimer]
    /\ media = [asking |-> 0, recorders |-> <<>>, intervals |-> {},
                starts |-> 0]

\* The round record button is on screen.
RecordButton == rec.mounted /\ rec.audioBlob = "null"

\* A click on the button while isRecording is false: startRecording up to
\* its await of getUserMedia.
startRecording ==
    /\ RecordButton
    /\ ~rec.isRecording
    /\ media.starts < MaxStarts
    /\ media' = [media EXCEPT !.asking = @ + 1, !.starts = @ + 1]
    /\ UNCHANGED <<page, badges, rendered, auth, router, register, rec, refs>>

\* getUserMedia resolves: startRecording resumes, creates and starts a
\* MediaRecorder and sets the interval.  The k-th MediaRecorder is k, and
\* the k-th window.setInterval returns k.
PermissionGranted ==
    /\ media.asking > 0
    /\ LET k == Len(media.recorders) + 1
       IN  /\ media' = [media EXCEPT !.asking = @ - 1,
                                     !.recorders = Append(@, "recording"),
                                     !.intervals = @ \cup {k}]
           /\ refs' = [mediaRecorder |-> k, timer |-> k]
    /\ rec' = SetState(rec, [rec EXCEPT !.isRecording = TRUE,
                                        !.recordingTime = 0,
                                        !.error = ""])
    /\ UNCHANGED <<page, badges, rendered, auth, router, register>>

\* getUserMedia rejects: the catch block of startRecording.
PermissionDenied ==
    /\ media.asking > 0
    /\ media' = [media EXCEPT !.asking = @ - 1]
    /\ rec' = SetState(rec,
                       [rec EXCEPT !.error = "Failed to access microphone"])
    /\ UNCHANGED <<page, badges, rendered, auth, router, register, refs>>

\* A click on the button while isRecording is true.
stopRecording ==
    /\ RecordButton
    /\ rec.isRecording
    /\ IF refs.mediaRecorder # NoRecorder /\ rec.isRecording
       THEN /\ media' = [media EXCEPT
                           !.recorders = Stop(@, refs.mediaRecorder),
                           !.intervals = ClearIfSet(@, refs.timer)]
            /\ rec' = [rec EXCEPT !.isRecording = FALSE]
            /\ refs' = [refs EXCEPT !.timer = NoTimer]
       ELSE UNCHANGED <<media, rec, refs>>
    /\ UNCHANGED <<page, badges, rendered, auth, router, register>>

\* The stop event of the i-th MediaRecorder: its onstop handler sets the
\* blob and stops the tracks of its stream.
onstop(i) ==
    /\ media.recorders[i] = "stopping"
    /\ media' = [media EXCEPT !.recorders[i] = "inactive"]
    /\ rec' = SetState(rec, [rec EXCEPT !.audioBlob = "blob"])
    /\ UNCHANGED <<page, badges, rendered, auth, router, register, refs>>

\* The interval h fires: setRecordingTime(prev => prev + 1).
RecordingTick(h) ==
    /\ h \in media.intervals
    /\ rec.recordingTime < MaxTime
    /\ rec' = SetState(rec, [rec EXCEPT !.recordingTime = @ + 1])
    /\ UNCHANGED <<page, badges, rendered, auth, router, register, refs,
                   media>>

\* The user picks an audio file instead of recording.
handleFileUpload ==
    /\ RecordButton
    /\ ~rec.isRecording
    /\ rec' = [rec EXCEPT !.audioBlob = "file", !.error = ""]
    /\ UNCHANGED <<page, badges, rendered, auth, router, register, refs,
                   media>>

\* A click on Record Again under the audio preview.
RecordAgain ==
    /\ rec.mounted
    /\ rec.audioBlob # "null"
    /\ rec' = [rec EXCEPT !.audioBlob = "null", !.recordingTime = 0]
    /\ UNCHANGED <<page, badges, rendered, auth, router, register, refs,
                   media>>

\* The page is left: the cleanup of its effect runs.
RecordUnmount ==
    /\ rec.mounted
    /\ rec' = [rec EXCEPT !.mounted = FALSE]
    /\ media' = [media EXCEPT !.intervals = ClearIfSet(@, refs.timer)]
    /\ UNCHANGED <<page, badges, rendered, auth, router, register, refs>>

NextRecord ==
    \/ startRecording
    \/ PermissionGranted
    \/ PermissionDenied
    \/ stopRecording
    \/ \E i \in DOMAIN media.recorders : onstop(i)
    \/ \E h \in media.intervals : RecordingTick(h)
    \/ handleFileUpload
    \/ RecordAgain
    \/ RecordUnmount

SpecRecord == InitRecord /\ [][NextRecord]_vars

\* C11 as claimed: the tracker never transitions status itself.  A step
\* that delivers a getLesson response leaves the held status equal to the
\* status of that response; every other step of a mounted view (poll
\* failure, retry start, retry failure, output update, dispose) leaves the
\* held status as it was.
C11_StatusFromServiceOnly ==
    [][IF GetOkStep
       THEN \E r \in SettledInStep : lesson'.status = r.status
       ELSE mounted => lesson'.status = lesson.status]_vars

\* The held lesson keeps outputs and transcript for status COMPLETED only.
HeldInvariant ==
    lesson.status # "COMPLETED"
        => (lesson.outputs = <<>> /\ lesson.transcript = "")

\* C13: given a service that returns outputs and transcript only for a
\* COMPLETED lesson, the held lesson has outputs or a transcript only when
\* its status is COMPLETED, and the outputs section and the transcript
\* section are displayed only while the held status is COMPLETED.
C13_OutputsOnlyWhenCompleted ==
    /\ HeldInvariant
    /\ (OutputsShown \/ TranscriptShown) => lesson.status = "COMPLETED"

\* An edit was applied to a completed lesson; both sections are displayed.
C13_Witness ==
    /\ event.op = "updateOk"
    /\ OutputsShown
    /\ TranscriptShown
    /\ \E i \in DOMAIN lesson.outputs : lesson.outputs[i].is_edited

\* C18 as claimed: applying an output update to a mounted view leaves the
\* held lesson's outputs with the same length and the same ids in the same
\* order, replaces only the entry whose id is the updated output's, and
\* leaves status, transcript and error_message unchanged.
C18_UpdateFrame ==
    [][(UpdateOkStep /\ mounted)
          => /\ Len(lesson'.outputs) = Len(lesson.outputs)
             /\ \A i \in DOMAIN lesson.outputs :
                   /\ lesson'.outputs[i].id = lesson.outputs[i].id
                   /\ (\A r \in SettledInStep : r.oid # lesson.outputs[i].id)
                         => lesson'.outputs[i] = lesson.outputs[i]
             /\ lesson'.status = lesson.status
             /\ lesson'.transcript = lesson.transcript
             /\ lesson'.error_message = lesson.error_message]_vars

\* C12 as claimed: a badge given one of the seven statuses renders the label
\* and colour configured for it; a badge given any other string renders that
\* string as its label with colour bg-gray-600, also when the string names an
\* inherited object property such as "constructor" or "toString".
C12_BadgeRendering ==
    \A i \in DOMAIN badges :
        rendered[i] # NotRendered
            => rendered[i] = IF badges[i] \in Statuses
                             THEN statusConfig[badges[i]]
                             ELSE [label |-> badges[i], color |-> "bg-gray-600"]

\* C14 as claimed: a tick fetch that is still in flight when its timer is
\* cancelled (by another tick that saw a terminal status) or replaced (by the
\* startPolling of a retry) has no effect when it completes: the held lesson
\* and the poll state stay as they are.  Stated for a view whose cleanup
\* never ran.
C14_CancelledTickIgnored ==
    [][\A r \in SettledInStep :
          (/\ r.kind = "tick"
           /\ epoch = 0
           /\ r.tid \notin {t.id : t \in timers})
             => /\ lesson' = lesson
                /\ UNCHANGED <<pollRef, timers, nextTimer>>]_vars

\* The tick fetches awaiting their response.
TickBag ==
    [r \in {x \in BagToSet(inflight) : x.kind = "tick"} |-> inflight[r]]

TicksInFlight == BagCardinality(TickBag)

\* C15 as claimed: tick bodies never overlap, at most one tick-issued
\* getLesson fetch is in flight at any time.
C15_NoOverlap == TicksInFlight <= 1

\* C15 amended: nothing keeps tick bodies from overlapping, but every firing
\* of the interval issues exactly one getLesson fetch, for the lesson of the
\* one live timer that pollRef names, and touches neither the held lesson
\* nor the poll state.
C15_OneFetchPerFiring ==
    [][TimerFireStep
          => /\ BagCardinality(inflight') = BagCardinality(inflight) + 1
             /\ SettledInStep = {}
             /\ \A r \in IssuedInStep :
                   /\ r.kind = "tick"
                   /\ r.tid = pollRef
                   /\ \E t \in timers : t.id = r.tid /\ t.lid = r.lid
             /\ lesson' = lesson
             /\ UNCHANGED <<pollRef, timers, nextTimer>>]_vars

\* The one live timer has fired twice before either fetch returned.
C15_Witness ==
    /\ event.op = "tick"
    /\ epoch = 0
    /\ Cardinality(timers) = 1
    /\ TicksInFlight = 2
    /\ \A r \in BagToSet(TickBag) : r.tid = pollRef

\* C16: retry is invoked only when the held status is FAILED: the retry
\* control is offered only then, and every reprocess call is issued from a
\* state whose held status is FAILED, never CREATED, a processing status or
\* COMPLETED.
C16_RetryOnlyWhenFailed ==
    [][/\ RetryOffered => lesson.status = "FAILED"
       /\ \A r \in IssuedInStep :
             r.kind = "process"
                => /\ RetryOffered
                   /\ lesson.status \notin PROCESSING_STATUSES
                   /\ lesson.status \notin {"CREATED", "COMPLETED"}
      ]_vars

\* A reprocess call is in flight, issued by a click on a held FAILED lesson.
C16_Witness ==
    /\ event.op = "retry"
    /\ event.status = "FAILED"
    /\ \E r \in BagToSet(inflight) : r.kind = "process"

\* A retry is in flight: handleRetry awaits reprocess or its reload, or is
\* about to resume after the reload.
RetryInFlight ==
    \/ cont # NoCont
    \/ \E r \in BagToSet(inflight) :
          r.kind = "process" \/ (r.kind = "load" /\ r.viaRetry)

\* C17: the retry busy flag is true exactly while a retry is in flight: set
\* with the reprocess call, cleared when retry finishes after a successful
\* reprocess, a failed reprocess or a failed reload; never left stuck.
C17_BusyWhileRetrying == isRetrying <=> RetryInFlight

\* A retry has finished after its reload failed; the flag is clear again.
C17_Witness ==
    /\ event.op = "retryDone"
    /\ event.status = "ERROR"
    /\ nRetries > 0
    /\ ~RetryInFlight
    /\ ~isRetrying

\* C20 as claimed: once the view is disposed, no poll timer is active again
\* and no further getLesson fetch is issued, also when a load that was in
\* flight at dispose completes afterwards with a processing status.
C20_NothingAfterDispose ==
    [][~mounted
          => /\ timers' = {}
             /\ \A r \in IssuedInStep : r.kind \notin {"load", "tick"}]_vars

\* C19: on a response with status 401 the request layer clears the session
\* (logout) and redirects to /login, and still rejects; on any other error
\* it rejects and leaves session and location alone.
C19_LogoutOn401Only ==
    [][ApiResponseStep
          => \A r \in Handled :
                /\ r.http = 401
                      => /\ token' = "null"
                         /\ href' = "/login"
                         /\ outcome' = [state |-> "rejected", http |-> r.http]
                /\ (r.http \notin HttpOk /\ r.http # 401)
                      => /\ token' = token
                         /\ href' = href
                         /\ outcome' = [state |-> "rejected", http |-> r.http]
      ]_vars

\* A 401 arrived for a logged-in session: logged out, at /login, rejected.
C19_Witness ==
    /\ outcome = [state |-> "rejected", http |-> 401]
    /\ token = "null"
    /\ href = "/login"
    /\ \E r \in BagToSet(pending) : r.authorization = "Bearer t1"

\* handleRetry finishes after a failure: its catch block ran on a rejected
\* reprocess call, or it resumed after a reload that failed.
RetryFailedStep ==
    \/ event'.op = "processFail" /\ inflight' # inflight
    \/ cont # NoCont /\ cont' = NoCont /\ event'.status = "ERROR"

\* C21 as claimed: when retry finishes after a rejected reprocess call or a
\* failed reload, no poll timer is active and the held lesson is the one
\* held before.  Stated for a view whose cleanup never ran.
C21_FailedRetryLeavesNoTimer ==
    [][(epoch = 0 /\ RetryFailedStep)
          => (timers' = {} /\ lesson' = lesson)]_vars

\* An output update awaits its response.
UpdateInFlight ==
    \E r \in BagToSet(inflight) : r.kind \in {"save", "revert"}

\* C22 as claimed: no update is lost between output edits.  Once the
\* updates of a view whose cleanup never ran have all completed, the held
\* lesson shows every output as the service stores it, whatever the order
\* in which the responses arrived.
C22_NoLostUpdate ==
    (/\ event.op = "updateOk"
     /\ mounted
     /\ epoch = 0
     /\ ~UpdateInFlight)
        => \A i \in DOMAIN lesson.outputs :
              lesson.outputs[i].content
                 = stored[lesson.id][lesson.outputs[i].id]

\* C23 as claimed: once the viewed lessonId has changed and the load of the
\* new lesson has completed (the held lesson is the new one), no fetch result
\* for the lesson viewed before is applied, whenever its load or tick fetch
\* completes, and no timer polls that lesson.
C23_SwitchIsolation ==
    [][(mounted /\ epoch > 0 /\ lesson.id = lessonId)
          => /\ \A r \in SettledInStep :
                   (r.kind \in {"load", "tick"} /\ r.lid # lessonId)
                      => lesson' = lesson
             /\ \A t \in timers' : t.lid = lessonId]_vars

LoadOkStep == event'.op = "loadOk" /\ inflight' # inflight

\* C24 as claimed: CREATED is neither processing nor terminal.  A load that
\* returns CREATED starts no timer, a tick that observes CREATED cancels the
\* timer, and while CREATED is held with no timer active the held lesson
\* changes only when a load completes.
C24_CreatedNeverRefreshed ==
    [][/\ (LoadOkStep /\ event'.status = "CREATED")
             => UNCHANGED <<pollRef, timers, nextTimer>>
       /\ (TickOkStep /\ event'.status = "CREATED")
             => (timers' = {} /\ pollRef' = NoTimer)
       /\ (mounted /\ lesson.status = "CREATED" /\ timers = {}
              /\ lesson' # lesson)
             => \E r \in SettledInStep : r.kind = "load"]_vars

\* C25: a protected page is rendered only while a token is present: whenever
\* the token is absent the routes render no child of ProtectedRoute, and at
\* a protected location they render the redirect to /login.
C25_ProtectedOnlyWithToken ==
    Falsy(token)
        => /\ screen \notin ProtectedPages
           /\ Top(history) \in ProtectedPaths => screen = "Navigate"

\* A 401 has cleared the session while a protected page was shown: the page
\* is replaced by the redirect.
C25_Witness ==
    /\ token = "null"
    /\ href = "/login"
    /\ Top(history) \in ProtectedPaths
    /\ screen = "Navigate"

\* C26 as claimed: a registration submission that has ended with an error
\* shown leaves the auth state as it was before the submission (no token
\* stored, no user set) and has not navigated, whether the error is a local
\* validation failure, a rejected register call or a rejected me call.
C26_FailedSubmitLeavesAuth ==
    (reg.error # "" /\ ~reg.isLoading)
        => /\ token = reg.token
           /\ user = reg.user
           /\ history = reg.history

\* C27 as claimed: on the record page at most one recording timer and at
\* most one MediaRecorder are active at any time, whatever the order of
\* start and stop clicks and of the answers to the permission requests, a
\* second startRecording during the permission wait of the first included.
C27_OneRecorderOneTimer ==
    /\ Cardinality(media.intervals) <= 1
    /\ Cardinality(Recording(media)) <= 1

\* A step in which stopRecording stops the recorder, and a step in which
\* the record page is unmounted.
StopRecordingStep == rec.isRecording /\ ~rec'.isRecording
RecordUnmountStep == rec.mounted /\ ~rec'.mounted

\* The second half of the same claim: right after stopRecording or the
\* unmount of the page no timer and no MediaRecorder is active.
NoneActiveAfterStop ==
    [][(StopRecordingStep \/ RecordUnmountStep)
          => /\ media'.intervals = {}
             /\ Recording(media') = {}]_vars

====
